---- MODULE Spec2Model ----
(***************************************************************************)
(* Per-user sequential job scheduler of voicer-bot (src/bot.py).           *)
(*                                                                         *)
(* Every handler invocation (handle_audio, handle_overwrite_callback) is   *)
(* a coroutine.  A coroutine is a record of the set `tasks`; its pc names  *)
(* the await it is suspended at.  One action is the resumption of one      *)
(* coroutine from one await: it picks the outcome of the awaited call and  *)
(* runs all the synchronous code up to the next await (or to the return of *)
(* the handler), nested calls included.                                    *)
(*                                                                         *)
(* Spec    : coroutines of different updates interleave at their awaits.   *)
(* SpecSeq : updates are dispatched one at a time: a handler is started    *)
(*           only when no other handler is in flight (the dispatch of      *)
(*           ApplicationBuilder().build() with no concurrent_updates,      *)
(*           bot.py:272).  Every behaviour of SpecSeq is one of Spec.      *)
(***************************************************************************)
EXTENDS Naturals, Sequences, FiniteSets, TLC

\* ------------------------------------------------------------- bounds
MaxJobs == 2        \* jobs submitted in one run (Spec, SpecSeq)
MaxCallbacks == 2   \* handle_overwrite_callback invocations in one run
MaxTasks == 2       \* handlers in flight at the same time
OwnerJobs == 3      \* jobs submitted in one run of a single owner (SpecOwner)
OwnerCallbacks == 1 \* button presses in one run of a single owner (SpecOwner)

\* ------------------------------------------------------------- inputs
Users == {"u1", "u2"}
Names == {"a.ogg", "b.mp3"}
Header == "Zvonok"   \* the header cell of column 2 (sheets_manager.py:41)
Decisions == {"overwrite_yes", "overwrite_no"}
\* sheet column 2 when the bot starts: the header row alone, or with a record
InitSheets == {<<Header>>, <<Header, "b.mp3">>}

None == 0           \* Python None for a row index or an absent job
NoItem == [id |-> 0, name |-> "", row |-> 0]
NoAnalysis == [response |-> << >>, result |-> <<"none">>]

VARIABLES
    session,            \* the run's inputs: who sends updates, how many, and whether
                        \* the chats hold overwrite prompts of an earlier run
    user_queues,        \* bot.py:39  user_id -> list of queued items (partial)
    user_active_flags,  \* bot.py:40  user_id -> bool (partial)
    pending_item,       \* context.user_data['pending_item'] of each user
    sheet,              \* column 2 of the Google sheet, row 1 first
    connected,          \* sheets_manager.sheet is set
    files,              \* temporary files on disk: <<job id, "raw" | "mp3">>
    tasks,              \* handler coroutines in flight
    nsub,               \* handle_audio invocations so far
    ncb,                \* handle_overwrite_callback invocations so far
    submitted,          \* history: per owner, job ids in append order
    dequeued,           \* history: per owner, job ids in pop(0) order
    finalized,          \* history: per owner, <<job id, how>> in the order handling ended
    runs,               \* history: job id -> process_audio_file activations
    prompted,           \* history: jobs an overwrite prompt was issued for
    analysis            \* SpecScore: the response analyze_call_audio parsed and what
                        \* it returned; no part of the scheduler's state

vars == <<session, user_queues, user_active_flags, pending_item, sheet, connected, files,
          tasks, nsub, ncb, submitted, dequeued, finalized, runs, prompted, analysis>>

\* ------------------------------------------------------------- helpers
\* dict.get(k, d)
Get(f, k, d) == IF k \in DOMAIN f THEN f[k] ELSE d
\* a plausible slip: one value shared by all users instead of one per user_id
PutAll(f, k, v) == [x \in (DOMAIN f) \cup {k} |-> v]

\* dict[k] = v
Put(f, k, v) == [x \in (DOMAIN f) \cup {k} |-> IF x = k THEN v ELSE f[x]]

\* user_active_flags.get(user_id, False)
ActiveFlag(u) == Get(user_active_flags, u, FALSE)
\* user_queues[user_id], the empty list when the key is absent
Queue(u) == Get(user_queues, u, << >>)

RECURSIVE IndexFrom(_, _, _)
IndexFrom(s, x, i) ==
    IF i > Len(s) THEN None
    ELSE IF s[i] = x THEN i ELSE IndexFrom(s, x, i + 1)

\* a plausible slip: the 0-based list index is returned as the row
IndexOnly(s, name) ==
    IF IndexFrom(s, name, 1) = None THEN None ELSE IndexFrom(s, name, 1) - 1

\* filenames.index(filename) + 1 if filename in filenames else None
FindRow(s, name) == IndexFrom(s, name, 1)

\* A handler coroutine.  item: the job of the innermost frame (with the row_index
\* it is run with); depth: nested process_next_in_queue activations; data: the
\* callback's query.data; about: the job whose prompt message carries the pressed
\* button (query.message; None: a prompt of an earlier run of the bot); target:
\* target_path of the run; saved: what add_evaluation returned in the run.
Task(id, u, pc, item, depth, data, about) ==
    [id |-> id, user |-> u, pc |-> pc, item |-> item, depth |-> depth,
     data |-> data, about |-> about, target |-> "none", saved |-> "none"]

\* the coroutine slot a new handler takes
FreeSlot == CHOOSE i \in 1..MaxTasks :
               /\ \A t \in tasks : t.id # i
               /\ \A k \in 1..(i - 1) : \E t \in tasks : t.id = k

TempFiles(j) == {<<j, "raw">>, <<j, "mp3">>}

\* the handling of job j ends: "run" (process_audio_file returned or raised),
\* "skip" (discarded by a decision) or "lost" (dequeued, never run nor skipped)
Finalize(u, j, how) == finalized' = [finalized EXCEPT ![u] = Append(@, <<j, how>>)]

\* ------------------------------------------------------------- sheets_manager
\* a plausible slip: the duplicate check is left out when a job is dequeued
CheckSkipped(name) == {[raised |-> FALSE, row |-> None, conn |-> connected]}

\* The outcomes of sheets_manager.find_row_by_filename(name): connect() fails
\* (only when no sheet is cached) or col_values raises, else the first row
\* holding name, or None.
find_row_by_filename(name) ==
    (IF connected THEN {} ELSE {[raised |-> TRUE, row |-> None, conn |-> FALSE]})
    \cup {[raised |-> TRUE, row |-> None, conn |-> TRUE],
          [raised |-> FALSE, row |-> FindRow(sheet, name), conn |-> TRUE]}

\* init_headers: appends the header row when A1 is empty; its errors are logged
\* and swallowed, so an empty sheet may stay empty.
init_headers(s) == IF s = << >> THEN {<<Header>>, << >>} ELSE {s}

\* a plausible slip: row_index is ignored and the row is always appended
AppendOnly(name, row) ==
    (IF connected THEN {} ELSE {[ok |-> FALSE, sheet |-> sheet, conn |-> FALSE]})
    \cup UNION { { [ok |-> TRUE, conn |-> TRUE, sheet |-> Append(s0, name)],
                   [ok |-> FALSE, conn |-> TRUE, sheet |-> s0] }
                 : s0 \in init_headers(sheet) }

\* The outcomes of sheets_manager.add_evaluation(name, ..., row_index=row).
add_evaluation(name, row) ==
    (IF connected THEN {} ELSE {[ok |-> FALSE, sheet |-> sheet, conn |-> FALSE]})
    \cup UNION { { [ok |-> TRUE, conn |-> TRUE,
                    sheet |-> IF row # None
                              THEN [s0 EXCEPT ![row] = name]
                              ELSE Append(s0, name)],
                   [ok |-> FALSE, conn |-> TRUE, sheet |-> s0] }
                 : s0 \in (IF row # None THEN {sheet} ELSE init_headers(sheet)) }

\* ------------------------------------------------------------- scheduler
\* a plausible slip: list.pop() takes the newest item
PopLast(q) == <<q[Len(q)], SubSeq(q, 1, Len(q) - 1)>>

\* bot.py:142  current_item = user_queues[user_id].pop(0): the item and the rest
Pop0(q) == <<Head(q), Tail(q)>>

\* a plausible slip: the flag is not reset when the queue is drained
FlagKept(f0, u) == f0

\* bot.py:131  user_active_flags[user_id] = False
IdleFlag(f0, u) == Put(f0, u, FALSE)

\* process_next_in_queue(user_id), called by coroutine t after its caller left
\* the queues, flags and pending items as q0, f0, p0.  Runs up to the first await:
\* the reply of bot.py:149, the prompt of bot.py:172 or get_file of bot.py:52;
\* with an empty queue it returns, and so does every frame above it.
process_next_in_queue(t, q0, f0, p0) ==
    LET u == t.user IN
    IF u \notin DOMAIN q0 \/ q0[u] = << >>
    THEN /\ user_queues' = q0
         /\ user_active_flags' = IdleFlag(f0, u)
         /\ pending_item' = p0
         /\ tasks' = tasks \ {t}
         /\ UNCHANGED <<connected, dequeued, runs, prompted>>
    ELSE LET cur == Pop0(q0[u])[1] IN
         /\ user_queues' = [q0 EXCEPT ![u] = Pop0(q0[u])[2]]
         /\ user_active_flags' = Put(f0, u, TRUE)
         /\ dequeued' = [dequeued EXCEPT ![u] = Append(@, cur.id)]
         /\ \E r \in find_row_by_filename(cur.name) :
              /\ connected' = r.conn
              /\ IF r.raised
                 THEN /\ pending_item' = p0
                      /\ tasks' = (tasks \ {t}) \cup
                            {[t EXCEPT !.pc = "conflict_err", !.item = cur,
                                       !.depth = t.depth + 1]}
                      /\ UNCHANGED <<runs, prompted>>
                 ELSE IF r.row # None
                 THEN /\ pending_item' =
                            [p0 EXCEPT ![u] = [cur EXCEPT !.row = r.row]]
                      /\ tasks' = (tasks \ {t}) \cup
                            {[t EXCEPT !.pc = "prompt", !.item = cur,
                                       !.depth = t.depth + 1]}
                      /\ prompted' = prompted \cup {cur.id}
                      /\ UNCHANGED runs
                 ELSE /\ pending_item' = p0
                      /\ runs' = [runs EXCEPT ![cur.id] = @ + 1]
                      /\ tasks' = (tasks \ {t}) \cup
                            {[t EXCEPT !.pc = "get_file", !.item = cur,
                                       !.depth = t.depth + 1,
                                       !.target = "none", !.saved = "none"]}
                      /\ UNCHANGED prompted

\* The handler of coroutine t ends: by a return of its outermost frame, or by an
\* exception no frame catches (the dispatcher logs it).
HandlerEnds(t) == tasks' = tasks \ {t}

\* process_audio_file returned to its caller, coroutine t; the job is finalized.  Called from process_next_in_queue (bot.py:180) the caller goes on to
\* bot.py:183; called from handle_overwrite_callback (bot.py:252, depth 0) the
\* caller pops pending_item (bot.py:255) and goes on to bot.py:258.
PipelineReturns(t) ==
    /\ Finalize(t.user, t.item.id, "run")
    /\ process_next_in_queue(
           t, user_queues, user_active_flags,
           IF t.depth = 0 THEN [pending_item EXCEPT ![t.user] = NoItem]
                          ELSE pending_item)

\* process_audio_file raised: no frame of the handler catches it.
PipelineRaises(t) ==
    /\ Finalize(t.user, t.item.id, "run")
    /\ HandlerEnds(t)
    /\ UNCHANGED <<user_queues, user_active_flags, pending_item, connected,
                   dequeued, runs, prompted>>

\* ------------------------------------------------------------- handle_audio
\* a plausible slip: the flag is not consulted
AlwaysStart(u) == TRUE

\* a plausible slip: the test of the flag is inverted
Inverted(u) == ActiveFlag(u)

\* bot.py:223
NotProcessing(u) == ~ActiveFlag(u)

\* handle_audio for a message of user u carrying a file named n.  valid: the
\* checks of bot.py:190-195 pass.
HandleAudio(u, n, valid) ==
    /\ u \in session.users
    /\ Cardinality(tasks) < MaxTasks
    /\ valid => nsub < session.jobs
    /\ nsub' = IF valid THEN nsub + 1 ELSE nsub
    /\ LET id == nsub + 1
           t  == Task(FreeSlot, u, "start", NoItem, 0, "none", None)
           it == [id |-> id, name |-> n, row |-> None]
           q0 == Put(user_queues, u, Append(Queue(u), it))
       IN IF ~valid
          THEN /\ tasks' = tasks \cup {[t EXCEPT !.pc = "reject"]}
               /\ UNCHANGED <<user_queues, user_active_flags, pending_item,
                              connected, submitted, dequeued, runs, prompted>>
          ELSE /\ submitted' = [submitted EXCEPT ![u] = Append(@, id)]
               /\ IF NotProcessing(u)
                  THEN process_next_in_queue(t, q0, user_active_flags, pending_item)
                  ELSE /\ user_queues' = q0
                       /\ tasks' = tasks \cup {[t EXCEPT !.pc = "queued", !.item = it]}
                       /\ UNCHANGED <<user_active_flags, pending_item, connected,
                                      dequeued, runs, prompted>>
    /\ UNCHANGED <<session, analysis, sheet, files, ncb, finalized>>

\* The reply of bot.py:191/194, bot.py:226 or bot.py:172 completed or raised:
\* either way the handler ends there.
ReplyEndsHandler(t) ==
    /\ t.pc \in {"reject", "queued", "prompt"}
    /\ HandlerEnds(t)
    /\ UNCHANGED <<session, analysis, user_queues, user_active_flags, pending_item, sheet, connected,
                   files, nsub, ncb, submitted, dequeued, finalized, runs, prompted>>

\* The reply of bot.py:149 completed: existing_row = None and the job is run
\* (bot.py:180); or it raised, and the exception leaves process_next_in_queue:
\* the handling of the job ends there, the job never run.
ConflictErrorReplied(t, ok) ==
    /\ t.pc = "conflict_err"
    /\ IF ok
       THEN /\ runs' = [runs EXCEPT ![t.item.id] = @ + 1]
            /\ tasks' = (tasks \ {t}) \cup
                   {[t EXCEPT !.pc = "get_file", !.target = "none", !.saved = "none"]}
            /\ UNCHANGED finalized
       ELSE /\ HandlerEnds(t)
            /\ Finalize(t.user, t.item.id, "lost")
            /\ UNCHANGED runs
    /\ UNCHANGED <<session, analysis, user_queues, user_active_flags, pending_item, sheet,
                   connected, files, nsub, ncb, submitted, dequeued, prompted>>

\* ------------------------------------------------------------- process_audio_file
\* A step of process_audio_file that moves coroutine t to the await `pc` and
\* touches nothing but the coroutine.
Advance(t, pc) ==
    /\ tasks' = (tasks \ {t}) \cup {[t EXCEPT !.pc = pc]}
    /\ UNCHANGED <<user_queues, user_active_flags, pending_item, connected,
                   dequeued, finalized, runs, prompted>>

\* a plausible slip: only the downloaded file is removed
RemoveDownloadOnly(t) == files' = files \ {<<t.item.id, "raw">>}

\* the finally block of bot.py:120-122
RemoveTempFiles(t) == files' = files \ TempFiles(t.item.id)

\* bot.py:52 get_file returned, or raised (then the reply of bot.py:54 is awaited)
GetFileDone(t, ok) ==
    /\ t.pc = "get_file"
    /\ Advance(t, IF ok THEN "status" ELSE "file_err")
    /\ UNCHANGED <<session, analysis, sheet, files, nsub, ncb, submitted>>

\* bot.py:54 the reply completed (return at bot.py:55) or raised
FileErrorReplied(t, ok) ==
    /\ t.pc = "file_err"
    /\ IF ok THEN PipelineReturns(t) ELSE PipelineRaises(t)
    /\ UNCHANGED <<session, analysis, sheet, files, nsub, ncb, submitted>>

\* bot.py:62 the status message was sent, or the call raised (outside the try)
StatusSent(t, ok) ==
    /\ t.pc = "status"
    /\ IF ok
       THEN Advance(t, "download") /\ UNCHANGED finalized
       ELSE PipelineRaises(t)
    /\ UNCHANGED <<session, analysis, sheet, files, nsub, ncb, submitted>>

\* a plausible slip: an exception of download_to_drive is swallowed and the run
\* goes on to the conversion
DownloadUnchecked(t, ok, written) ==
    /\ t.pc = "download"
    /\ ok => written
    /\ Advance(t, "convert")
    /\ files' = IF written THEN files \cup {<<t.item.id, "raw">>} ELSE files
    /\ UNCHANGED <<session, analysis, sheet, nsub, ncb, submitted>>

\* bot.py:66 download_to_drive wrote temp_path, or raised (having written a part
\* of the file or nothing)
DownloadDone(t, ok, written) ==
    /\ t.pc = "download"
    /\ ok => written
    /\ Advance(t, IF ok THEN "convert" ELSE "reply_error")
    /\ files' = IF written THEN files \cup {<<t.item.id, "raw">>} ELSE files
    /\ UNCHANGED <<session, analysis, sheet, nsub, ncb, submitted>>

\* bot.py:81-87 convert_to_mp3 returned True (ffmpeg read temp_path and wrote
\* mp3_path) or False (mp3_path written in part or not at all)
ConvertDone(t, ok, written) ==
    /\ t.pc = "convert"
    /\ ok => (written /\ <<t.item.id, "raw">> \in files)
    /\ tasks' = (tasks \ {t}) \cup
           {[t EXCEPT !.pc = "edit_analyze", !.target = IF ok THEN "mp3" ELSE "raw"]}
    /\ files' = IF written THEN files \cup {<<t.item.id, "mp3">>} ELSE files
    /\ UNCHANGED <<session, analysis, user_queues, user_active_flags, pending_item, sheet, connected,
                   nsub, ncb, submitted, dequeued, finalized, runs, prompted>>

\* bot.py:90 the status edit completed, or raised (caught at bot.py:117)
AnalyzeAnnounced(t, ok) ==
    /\ t.pc = "edit_analyze"
    /\ Advance(t, IF ok THEN "analyze" ELSE "reply_error")
    /\ UNCHANGED <<session, analysis, sheet, files, nsub, ncb, submitted>>

\* bot.py:92 analyze_call_audio returned a record, or None (it catches every
\* exception, a missing target file included)
AnalyzeDone(t, ok) ==
    /\ t.pc = "analyze"
    /\ ok => <<t.item.id, t.target>> \in files
    /\ Advance(t, IF ok THEN "edit_saving" ELSE "edit_failed")
    /\ UNCHANGED <<session, analysis, sheet, files, nsub, ncb, submitted>>

\* bot.py:95 the failure edit completed (the function falls to finally and
\* returns), or raised (caught at bot.py:117)
FailureAnnounced(t, ok) ==
    /\ t.pc = "edit_failed"
    /\ IF ok
       THEN PipelineReturns(t) /\ RemoveTempFiles(t)
       ELSE Advance(t, "reply_error") /\ UNCHANGED files
    /\ UNCHANGED <<session, analysis, sheet, nsub, ncb, submitted>>

\* bot.py:98-104 the status edit completed and add_evaluation ran (its result is
\* dropped), or the edit raised (caught at bot.py:117)
SaveStep(t, ok) ==
    /\ t.pc = "edit_saving"
    /\ IF ok
       THEN \E r \in add_evaluation(t.item.name, t.item.row) :
               /\ sheet' = r.sheet
               /\ connected' = r.conn
               /\ tasks' = (tasks \ {t}) \cup
                     {[t EXCEPT !.pc = "reply_done",
                                !.saved = IF r.ok THEN "ok" ELSE "fail"]}
       ELSE /\ tasks' = (tasks \ {t}) \cup {[t EXCEPT !.pc = "reply_error"]}
            /\ UNCHANGED <<sheet, connected>>
    /\ UNCHANGED <<session, analysis, user_queues, user_active_flags, pending_item, files,
                   nsub, ncb, submitted, dequeued, finalized, runs, prompted>>

\* bot.py:115 the success message was sent (finally, return), or the call raised
\* (caught at bot.py:117)
SuccessReplied(t, ok) ==
    /\ t.pc = "reply_done"
    /\ IF ok
       THEN PipelineReturns(t) /\ RemoveTempFiles(t)
       ELSE Advance(t, "reply_error") /\ UNCHANGED files
    /\ UNCHANGED <<session, analysis, sheet, nsub, ncb, submitted>>

\* bot.py:119 the error message was sent (finally, return), or the call raised
\* inside the except block (finally, then the exception leaves the function)
ErrorReplied(t, ok) ==
    /\ t.pc = "reply_error"
    /\ IF ok THEN PipelineReturns(t) ELSE PipelineRaises(t)
    /\ RemoveTempFiles(t)
    /\ UNCHANGED <<session, analysis, sheet, nsub, ncb, submitted>>

\* ------------------------------------------------------------- handle_overwrite_callback
\* A press of an overwrite button by user u is dispatched: the handler runs to
\* the await of query.answer() (bot.py:233).
CallbackStart(u, d, about) ==
    /\ u \in session.users
    /\ about \in prompted \cup (IF session.old THEN {None} ELSE {})
    /\ ncb < session.callbacks
    /\ Cardinality(tasks) < MaxTasks
    /\ ncb' = ncb + 1
    /\ tasks' = tasks \cup {Task(FreeSlot, u, "answer", NoItem, 0, d, about)}
    /\ UNCHANGED <<session, analysis, user_queues, user_active_flags, pending_item, sheet, connected,
                   files, nsub, submitted, dequeued, finalized, runs, prompted>>

\* bot.py:239
IsStale(item) == item = NoItem

\* bot.py:233-251 query.answer() returned or raised (swallowed); pending_item is
\* read and one of the three edits is awaited.
CallbackAnswered(t) ==
    /\ t.pc = "answer"
    /\ LET item == pending_item[t.user] IN
       tasks' = (tasks \ {t}) \cup
          {IF IsStale(item)
           THEN [t EXCEPT !.pc = "stale_edit"]
           ELSE [t EXCEPT !.item = item,
                          !.pc = IF t.data = "overwrite_no" THEN "skip_edit"
                                 ELSE "yes_edit"]}
    /\ UNCHANGED <<session, analysis, user_queues, user_active_flags, pending_item, sheet, connected,
                   files, nsub, ncb, submitted, dequeued, finalized, runs, prompted>>

\* bot.py:240-243 the edit completed: the flag is reset and the queue resumed; or
\* the edit raised and the handler ends.
StaleAnnounced(t, ok) ==
    /\ t.pc = "stale_edit"
    /\ IF ok
       THEN process_next_in_queue(t, user_queues,
                                  Put(user_active_flags, t.user, FALSE), pending_item)
       ELSE /\ HandlerEnds(t)
            /\ UNCHANGED <<user_queues, user_active_flags, pending_item, connected,
                           dequeued, runs, prompted>>
    /\ UNCHANGED <<session, analysis, sheet, files, nsub, ncb, submitted, finalized>>

\* bot.py:248,255,258 the skip edit completed: pending_item is popped and the
\* queue resumed; or the edit raised and the handler ends.
SkipAnnounced(t, ok) ==
    /\ t.pc = "skip_edit"
    /\ IF ok
       THEN /\ Finalize(t.user, t.item.id, "skip")
            /\ process_next_in_queue(t, user_queues, user_active_flags,
                                     [pending_item EXCEPT ![t.user] = NoItem])
       ELSE /\ HandlerEnds(t)
            /\ UNCHANGED <<user_queues, user_active_flags, pending_item, connected,
                           dequeued, finalized, runs, prompted>>
    /\ UNCHANGED <<session, analysis, sheet, files, nsub, ncb, submitted>>

\* bot.py:251-252 the overwrite edit completed: process_audio_file is entered with
\* the row of the pending item; or the edit raised and the handler ends.
OverwriteAnnounced(t, ok) ==
    /\ t.pc = "yes_edit"
    /\ IF ok
       THEN /\ runs' = [runs EXCEPT ![t.item.id] = @ + 1]
            /\ tasks' = (tasks \ {t}) \cup
                   {[t EXCEPT !.pc = "get_file", !.target = "none", !.saved = "none"]}
       ELSE /\ HandlerEnds(t)
            /\ UNCHANGED runs
    /\ UNCHANGED <<session, analysis, user_queues, user_active_flags, pending_item, sheet, connected,
                   files, nsub, ncb, submitted, dequeued, finalized, prompted>>

\* ------------------------------------------------------------- specification
Start(users, jobs, callbacks, old) ==
    /\ session = [users |-> users, jobs |-> jobs, callbacks |-> callbacks,
                  old |-> old]
    /\ user_queues = << >>
    /\ user_active_flags = << >>
    /\ pending_item = [u \in Users |-> NoItem]
    /\ sheet \in InitSheets
    /\ connected = FALSE
    /\ files = {}
    /\ tasks = {}
    /\ nsub = 0
    /\ ncb = 0
    /\ submitted = [u \in Users |-> << >>]
    /\ dequeued = [u \in Users |-> << >>]
    /\ finalized = [u \in Users |-> << >>]
    /\ runs = [j \in 1..jobs |-> 0]
    /\ prompted = {}
    /\ analysis = NoAnalysis

Init == Start(Users, MaxJobs, MaxCallbacks, TRUE)

\* a suspended coroutine is resumed
Resume(t) ==
    \/ ReplyEndsHandler(t)
    \/ CallbackAnswered(t)
    \/ \E ok \in BOOLEAN :
          \/ ConflictErrorReplied(t, ok)
          \/ GetFileDone(t, ok)
          \/ FileErrorReplied(t, ok)
          \/ StatusSent(t, ok)
          \/ \E written \in BOOLEAN : DownloadDone(t, ok, written)
          \/ \E written \in BOOLEAN : ConvertDone(t, ok, written)
          \/ AnalyzeAnnounced(t, ok)
          \/ AnalyzeDone(t, ok)
          \/ FailureAnnounced(t, ok)
          \/ SaveStep(t, ok)
          \/ SuccessReplied(t, ok)
          \/ ErrorReplied(t, ok)
          \/ StaleAnnounced(t, ok)
          \/ SkipAnnounced(t, ok)
          \/ OverwriteAnnounced(t, ok)

\* an update arrives and its handler is started
Dispatch ==
    \/ \E u \in Users, n \in Names, valid \in BOOLEAN : HandleAudio(u, n, valid)
    \/ \E u \in Users, d \in Decisions, about \in 0..session.jobs :
          CallbackStart(u, d, about)

Next == Dispatch \/ \E t \in tasks : Resume(t)

Spec == Init /\ [][Next]_vars

\* updates are processed one by one
InitSeq == Start(Users, MaxJobs, MaxCallbacks, TRUE)

NextSeq == (tasks = {} /\ Dispatch) \/ \E t \in tasks : Resume(t)

SpecSeq == InitSeq /\ [][NextSeq]_vars

\* one owner's session in a chat with no prompt of an earlier run, coroutines
\* interleaving
InitOwner == Start({"u1"}, OwnerJobs, OwnerCallbacks, FALSE)

SpecOwner == InitOwner /\ [][Next]_vars

\* one owner's session, updates processed one by one
SpecOwnerSeq == InitOwner /\ [][NextSeq]_vars

\* A suspended coroutine is resumed and the awaits that no try block guards
\* complete: the replies of bot.py:149, bot.py:54, bot.py:62 and bot.py:119.
\* Every other call may fail as in Resume.
ResumeLive(t) ==
    \/ ReplyEndsHandler(t)
    \/ CallbackAnswered(t)
    \/ ConflictErrorReplied(t, TRUE)
    \/ FileErrorReplied(t, TRUE)
    \/ StatusSent(t, TRUE)
    \/ ErrorReplied(t, TRUE)
    \/ \E ok \in BOOLEAN :
          \/ GetFileDone(t, ok)
          \/ \E written \in BOOLEAN : DownloadDone(t, ok, written)
          \/ \E written \in BOOLEAN : ConvertDone(t, ok, written)
          \/ AnalyzeAnnounced(t, ok)
          \/ AnalyzeDone(t, ok)
          \/ FailureAnnounced(t, ok)
          \/ SaveStep(t, ok)
          \/ SuccessReplied(t, ok)
          \/ StaleAnnounced(t, ok)
          \/ SkipAnnounced(t, ok)
          \/ OverwriteAnnounced(t, ok)

\* the owner of a suspended job presses a button
Answer ==
    /\ tasks = {}
    /\ \E u \in Users, d \in Decisions, about \in 0..session.jobs :
          pending_item[u] # NoItem /\ CallbackStart(u, d, about)

NextLive == (tasks = {} /\ Dispatch) \/ \E t \in tasks : ResumeLive(t)

\* Updates are processed one by one; the event loop resumes every coroutine whose
\* awaited call completed, and the owner of a suspended job gets to press a button
\* while presses are left, whatever other updates keep arriving.
SpecLive ==
    /\ InitSeq
    /\ [][NextLive]_vars
    /\ WF_vars(\E t \in tasks : ResumeLive(t))
    /\ SF_vars(Answer)

\* ------------------------------------------------------------- vocabulary of the claims
Range(s) == {s[i] : i \in 1..Len(s)}
JobsOf(u) == Range(submitted[u])
Owner(j) == CHOOSE u \in Users : j \in JobsOf(u)
\* the job ids of finalized[u], in order
Ended(u) == [i \in 1..Len(finalized[u]) |-> finalized[u][i][1]]
\* how often the handling of job j has ended
Endings(u, j) == Cardinality({i \in 1..Len(finalized[u]) : finalized[u][i][1] = j})
IsPrefix(s, r) == Len(s) <= Len(r) /\ \A i \in 1..Len(s) : s[i] = r[i]

\* the awaits of process_audio_file
PipelinePcs == {"get_file", "file_err", "status", "download", "convert",
                "edit_analyze", "analyze", "edit_failed", "edit_saving",
                "reply_done", "reply_error"}
Running(t) == t.pc \in PipelinePcs
\* the coroutine this step resumes
Resumed(t) == t \in tasks /\ t \notin tasks'
\* jobs of owner u that are dequeued and whose handling has not ended
InFlight(u) ==
    {t.item.id : t \in {x \in tasks : x.user = u /\ (Running(x) \/ x.pc = "conflict_err")}}
    \cup (IF pending_item[u] = NoItem THEN {} ELSE {pending_item[u].id})
\* the state of owner u a handler of u reads
OwnerState(u) == <<Queue(u), ActiveFlag(u), pending_item[u]>>

\* C1: the jobs of an owner are dequeued in the order of their submission, and no
\* job is finalized (its run ended in success or failure, or it was skipped)
\* before every job the same owner submitted earlier is finalized.
C1_FifoOrder ==
    \A u \in Users :
       /\ IsPrefix(dequeued[u], submitted[u])
       /\ \A i \in 1..Len(finalized[u]) :
             finalized[u][i][2] # "lost"
             => \A e \in JobsOf(u) :
                   e < Ended(u)[i]
                   => \E k \in 1..(i - 1) :
                         finalized[u][k][1] = e /\ finalized[u][k][2] # "lost"

C3_StaleDecisionIsNoOp ==
    [][\A t \in tasks :
          (t.pc = "stale_edit" /\ Resumed(t))
          => /\ OwnerState(t.user)' = OwnerState(t.user)
             /\ dequeued' = dequeued
             /\ runs' = runs]_vars

\* a callback at the await after which it acts on what it read at bot.py:237
Deciding(t) == t.pc \in {"stale_edit", "skip_edit", "yes_edit"}
\* a decision was already applied to job j: its run is in flight, or its handling ended
Decided(j) ==
    \/ \E t \in tasks : Running(t) /\ t.item.id = j
    \/ \E u \in Users : j \in Range(Ended(u))
\* the suspended slot of job j was set and is cleared
Cleared(j) == j \in prompted /\ \A u \in Users : pending_item[u].id # j

\* C4: of two presses of the buttons of one job's prompt exactly one is applied:
\* the job is run or skipped once, and a press delivered when the decision is
\* already applied runs no pipeline, dequeues no job and changes no state.
C4_OneDecisionApplied ==
    [][\A t \in tasks :
          (Deciding(t) /\ Resumed(t) /\ t.about # None
               /\ t.user = Owner(t.about) /\ Decided(t.about))
          => /\ OwnerState(t.user)' = OwnerState(t.user)
             /\ dequeued' = dequeued
             /\ runs' = runs
             /\ finalized' = finalized]_vars

\* C5: a press of the buttons of job j's prompt that is delivered after j's
\* suspended slot was cleared starts no pipeline run and skips no job.
C5_RedeliveryTriggersNothing ==
    [][\A t \in tasks :
          (Deciding(t) /\ Resumed(t) /\ t.about # None
               /\ t.user = Owner(t.about) /\ Cleared(t.about))
          => (runs' = runs /\ finalized' = finalized)]_vars

\* C6: every job is handled exactly once: it is run once or skipped once, never
\* both, never twice, and a dequeued job is never dropped unhandled.
C6_ExactlyOnce ==
    \A u \in Users : \A j \in JobsOf(u) :
       /\ runs[j] <= 1
       /\ Endings(u, j) <= 1
       /\ <<j, "lost">> \notin Range(finalized[u])
       /\ ~(runs[j] >= 1 /\ <<j, "skip">> \in Range(finalized[u]))
       /\ (j \in Range(dequeued[u]) /\ j \notin Range(Ended(u)))
            => (j \in InFlight(u) \/ \E t \in tasks : Deciding(t) /\ t.item.id = j)

\* C7: a submission of an owner whose active flag is true only appends the job at
\* the tail of the owner's queue: the flag and the suspended slot stay, nothing is
\* dequeued, run or finalized by the step, and its handler awaits the 'added to
\* queue' reply of bot.py:226.
C7_EnqueueWhileActive ==
    [][\A u \in Users :
          (ActiveFlag(u) /\ Len(submitted'[u]) > Len(submitted[u]))
          => LET id == submitted'[u][Len(submitted'[u])] IN
             /\ Len(Queue(u)') = Len(Queue(u)) + 1
             /\ SubSeq(Queue(u)', 1, Len(Queue(u))) = Queue(u)
             /\ Queue(u)'[Len(Queue(u)')].id = id
             /\ ActiveFlag(u)'
             /\ pending_item' = pending_item
             /\ dequeued' = dequeued
             /\ runs' = runs
             /\ finalized' = finalized
             /\ \E t \in tasks' \ tasks :
                   t.user = u /\ t.pc = "queued" /\ t.item.id = id]_vars

\* a job waits in the queue while its handler awaits the 'added to queue' reply
C7_Witness ==
    \E t \in tasks :
       /\ t.pc = "queued"
       /\ ActiveFlag(t.user)
       /\ \E i \in 1..Len(Queue(t.user)) : Queue(t.user)[i].id = t.item.id

\* C8: owner u1 submits A, B, C (jobs 1, 2, 3), of which only B has a record, and
\* presses a button of B's prompt once.  Then B's prompt is issued only after A's
\* handling ended; while B is suspended C stays queued and is not dequeued; B is
\* run or skipped only after the press; C is dequeued only after B's handling
\* ended; the handling of the three ends in the order A, B, C.
C8_ConflictScenario ==
    (ncb <= 1 /\ prompted \subseteq {2})
    => /\ 2 \in prompted => 1 \in Range(Ended("u1"))
       /\ (pending_item["u1"].id = 2 /\ nsub >= 3)
            => /\ \E i \in 1..Len(Queue("u1")) : Queue("u1")[i].id = 3
               /\ 3 \notin Range(dequeued["u1"])
       /\ (2 \in prompted /\ (runs[2] > 0 \/ 2 \in Range(Ended("u1")))) => ncb = 1
       /\ (2 \in prompted /\ 3 \in Range(dequeued["u1"])) => 2 \in Range(Ended("u1"))
       /\ \A i \in 1..Len(Ended("u1")) : Ended("u1")[i] = i

\* A, B and C are all handled, B after a prompt and one press
C8_Witness ==
    /\ ncb = 1
    /\ prompted = {2}
    /\ runs[2] = 1
    /\ Ended("u1") = <<1, 2, 3>>

\* C9: when the duplicate check raised and the notice of bot.py:149 was awaited,
\* the job goes on to process_audio_file with no overwrite target.
C9_CheckFailureProceeds ==
    [][\A t \in tasks :
          (t.pc = "conflict_err" /\ Resumed(t))
          => /\ runs'[t.item.id] = runs[t.item.id] + 1
             /\ \E r \in tasks' :
                   r.id = t.id /\ r.pc = "get_file" /\ r.item = t.item
                   /\ r.item.row = None]_vars

\* C10: whenever a run of process_audio_file ends, by a return or by an exception
\* of any stage or message, the scheduler attempts the next dequeue: the head of a
\* non-empty queue is dequeued, an empty queue resets the active flag.
C10_FailureAdvances ==
    [][\A t \in tasks :
          (Running(t) /\ Resumed(t)
               /\ Len(finalized'[t.user]) > Len(finalized[t.user]))
          => IF Queue(t.user) # << >>
             THEN dequeued'[t.user]
                    = Append(dequeued[t.user], Head(Queue(t.user)).id)
             ELSE ~ActiveFlag(t.user)']_vars

\* C11: when the callback of a skip decision (overwrite_no) is resumed after its
\* edit of bot.py:248, the suspended job is not passed to process_audio_file,
\* nothing is written to the sheet, the suspended slot is cleared and the next
\* dequeue is attempted: the head of a non-empty queue is dequeued, an empty
\* queue resets the active flag.
C11_SkipDiscards ==
    [][\A t \in tasks :
          (t.pc = "skip_edit" /\ Resumed(t))
          => /\ runs'[t.item.id] = runs[t.item.id]
             /\ sheet' = sheet
             /\ pending_item'[t.user] = NoItem
             /\ IF Queue(t.user) # << >>
                THEN dequeued'[t.user]
                       = Append(dequeued[t.user], Head(Queue(t.user)).id)
                ELSE ~ActiveFlag(t.user)']_vars

\* a run of process_audio_file entered from handle_overwrite_callback (bot.py:252)
OverwriteRun(t) == Running(t) /\ t.depth = 0

Outstanding(u) == {j \in prompted \cap JobsOf(u) : ~Decided(j)}

\* C13: a suspended job exists only while its owner's active flag is true; an
\* owner has at most one undecided overwrite prompt; and the suspended slot of a
\* job is cleared only by the callback of a press on that job's own prompt.
C13_SuspendedSlot ==
    [][/\ \A u \in Users :
             /\ pending_item'[u] # NoItem => ActiveFlag(u)'
             /\ Cardinality(Outstanding(u)') <= 1
       /\ \A u \in Users :
             (pending_item[u] # NoItem /\ pending_item'[u] # pending_item[u])
             => \E t \in tasks :
                   /\ Resumed(t)
                   /\ t.user = u
                   /\ t.data \in Decisions
                   /\ t.about = pending_item[u].id]_vars

\* C14: at every await (every state of the model: an action runs from one await to
\* the next) an owner with a non-empty queue has the active flag true.
C14_NoIdleBacklog ==
    \A u \in Users : Queue(u) # << >> => ActiveFlag(u)

\* a backlog waits behind a suspended job while no handler is in flight
C14_Witness ==
    /\ tasks = {}
    /\ \E u \in Users :
          /\ Queue(u) # << >>
          /\ pending_item[u] # NoItem
          /\ ActiveFlag(u)

\* owner u is Idle with nothing left to do: flag false, queue empty, no suspended
\* job, and the handling of every job u submitted has ended
Drained(u) ==
    /\ ~ActiveFlag(u)
    /\ Queue(u) = << >>
    /\ pending_item[u] = NoItem
    /\ JobsOf(u) \subseteq Range(Ended(u))
\* the prompt of u's suspended job is never answered: no press is left
Unanswered(u) == pending_item[u] # NoItem /\ ncb = session.callbacks

\* C15: when the unguarded awaits complete and prompts are answered, the system
\* comes to rest with no handler in flight (but those of rejected messages,
\* bot.py:190-195) and every owner Idle, with an empty
\* queue, no suspended job and all jobs finalized (unless its prompt is never
\* answered); and a submission of an Idle owner dequeues the head job and starts
\* its handling in the same step.
C15_DrainsToIdle ==
    /\ <>[](/\ \A t \in tasks : t.pc = "reject"
            /\ \A u \in Users : Drained(u) \/ Unanswered(u))
    /\ [][\A u \in Users :
             (~ActiveFlag(u) /\ Len(submitted'[u]) > Len(submitted[u]))
             => LET id == submitted'[u][Len(submitted'[u])] IN
                /\ dequeued'[u] = Append(dequeued[u], id)
                /\ ActiveFlag(u)'
                /\ \E t \in tasks' \ tasks :
                      /\ t.user = u
                      /\ t.item.id = id
                      /\ t.pc \in {"get_file", "prompt", "conflict_err"}]_vars

\* all jobs were submitted, one of them was suspended and decided, and every
\* owner is Idle with all jobs finalized
C15_Witness ==
    /\ tasks = {}
    /\ nsub = session.jobs
    /\ prompted # {}
    /\ \A u \in Users : Drained(u)

\* the coroutines a step starts, resumes or ends
Stepped == (tasks \ tasks') \cup (tasks' \ tasks)

\* C16: a step that changes the queue, the active flag or the suspended job of an
\* owner, or dequeues, runs or finalizes one of its jobs, is a step of a handler
\* of that owner: no submission, decision or pipeline outcome of another user
\* touches them.
C16_OwnerIsolation ==
    [][\A v \in Users :
          (\/ OwnerState(v)' # OwnerState(v)
           \/ dequeued'[v] # dequeued[v]
           \/ finalized'[v] # finalized[v]
           \/ \E j \in JobsOf(v) : runs'[j] # runs[j])
          => \A t \in Stepped : t.user = v]_vars

\* u1 has a suspended job and u2, who pressed a button of its prompt, is found to
\* have no suspended job of its own
C16_Witness ==
    /\ pending_item["u1"] # NoItem
    /\ \E t \in tasks :
          /\ t.user = "u2"
          /\ t.pc = "stale_edit"
          /\ t.about = pending_item["u1"].id

\* owner v is Idle: no queue, flag false, no suspended job
Idle(v) == OwnerState(v) = << << >>, FALSE, NoItem >>

\* C17: while owner u has a job dequeued and not finalized (Running or
\* AwaitingDecision), a submission of another owner v who is Idle does not wait:
\* the program as main builds it can take, as its next step, the step that
\* dequeues v's job and starts its handling.
C17_OwnersInParallel ==
    \A u \in session.users, v \in session.users :
       (u # v /\ InFlight(u) # {} /\ Idle(v)
            /\ nsub < session.jobs /\ Cardinality(tasks) < MaxTasks)
       => ENABLED (NextSeq /\ Len(dequeued'[v]) > Len(dequeued[v]))

\* C18: the success message of bot.py:115 is sent only for a run whose
\* add_evaluation wrote the row: a run whose persist failed reports a failure.
C18_PersistFailureReported ==
    \A t \in tasks : t.pc = "reply_done" => t.saved = "ok"

\* the awaits of process_audio_file before the download of bot.py:66: a run that
\* ends there has created no file
BeforeDownload == {"get_file", "file_err", "status"}

\* C19: when a run of process_audio_file ends, by a return or by an exception,
\* every temporary file it created is removed: a run that ends before its download
\* leaves the disk as it was, and any other run leaves no temporary file of its
\* job.
C19_TempFilesRemoved ==
    [][\A t \in tasks :
          (Running(t) /\ Resumed(t)
               /\ Len(finalized'[t.user]) > Len(finalized[t.user]))
          => IF t.pc \in BeforeDownload
             THEN files' = files
             ELSE files' \cap TempFiles(t.item.id) = {}]_vars

\* a run that downloaded and analysed its file and wrote the row of a.ogg has
\* ended, and no file is left
C19_Witness ==
    /\ tasks = {}
    /\ files = {}
    /\ \E i \in 1..Len(sheet) : sheet[i] = "a.ogg"
    /\ \E u \in Users : \E i \in 1..Len(finalized[u]) : finalized[u][i][2] = "run"

\* C20: draining the backlog does not grow the call stack: when a handler that is
\* inside process_next_in_queue goes on from one job to the next, the number of
\* its nested process_next_in_queue activations does not grow.
C20_StackBounded ==
    [][\A t \in tasks : \A r \in tasks' :
          (Running(t) /\ Resumed(t) /\ t.depth >= 1
               /\ r.id = t.id /\ r.item.id # t.item.id)
          => r.depth <= t.depth]_vars

\* the job the step dequeues for owner u
Dequeues(u, r) ==
    /\ Len(dequeued'[u]) = Len(dequeued[u]) + 1
    /\ r \in tasks' \ tasks
    /\ r.user = u
    /\ r.item.id = dequeued'[u][Len(dequeued'[u])]
Recorded(name) == \E i \in 1..Len(sheet) : sheet[i] = name

\* C21: handle_audio accepts a submission whatever its name and appends it at the
\* tail of its owner's queue, jobs of the same name included; the step of a
\* submission that dequeues nothing issues no prompt and suspends nothing.  The
\* duplicate check is made in the step that dequeues the job, on the sheet as it
\* is then: unless the check raises, a job whose name is recorded is suspended
\* with the row of that record, and a job whose name is not recorded is run.
C21_CheckAtDequeue ==
    /\ [](\A u \in session.users, n \in Names :
             (nsub < session.jobs /\ Cardinality(tasks) < MaxTasks)
             => ENABLED HandleAudio(u, n, TRUE))
    /\ [][\A u \in Users :
             /\ Len(submitted'[u]) > Len(submitted[u])
                  => \E n \in Names :
                        LET q1 == Append(Queue(u),
                                         [id |-> submitted'[u][Len(submitted'[u])],
                                          name |-> n, row |-> None])
                        IN \/ /\ Queue(u)' = q1
                              /\ dequeued' = dequeued
                              /\ prompted' = prompted
                              /\ pending_item' = pending_item
                           \/ /\ Queue(u)' = Tail(q1)
                              /\ dequeued'[u] = Append(dequeued[u], Head(q1).id)
             /\ \A r \in tasks' :
                   Dequeues(u, r)
                   => \/ r.pc = "conflict_err"
                      \/ IF Recorded(r.item.name)
                         THEN /\ r.pc = "prompt"
                              /\ r.item.id \in prompted'
                              /\ pending_item'[u].id = r.item.id
                              /\ pending_item'[u].name = r.item.name
                              /\ pending_item'[u].row \in 1..Len(sheet)
                              /\ sheet[pending_item'[u].row] = r.item.name
                         ELSE /\ r.pc = "get_file"
                              /\ r.item.id \notin prompted'
                              /\ pending_item'[u].id # r.item.id]_vars

\* the second of two jobs named a.ogg, a name the sheet did not hold at the start,
\* is suspended on the row the run of the first wrote
C21_Witness ==
    /\ pending_item["u1"].id = 2
    /\ pending_item["u1"].name = "a.ogg"
    /\ pending_item["u1"].row # None
    /\ finalized["u1"] = << <<1, "run">> >>

\* ------------------------------------------------------------- the format tag
FormatJobs == 1       \* jobs submitted in one run of SpecFormat
FormatCallbacks == 1  \* button presses in one run of SpecFormat

\* file names of the messages the handler of bot.py:275 accepts (voice, audio,
\* audio documents), and their characters
FormatNames == {"a.ogg", "b.mp3", "c.OGA", "d.wav", "e.m4a", "f", ".flac", "g.x.flac"}
Chars(name) ==
    CASE name = "a.ogg"    -> <<"a", ".", "o", "g", "g">>
      [] name = "b.mp3"    -> <<"b", ".", "m", "p", "3">>
      [] name = "c.OGA"    -> <<"c", ".", "O", "G", "A">>
      [] name = "d.wav"    -> <<"d", ".", "w", "a", "v">>
      [] name = "e.m4a"    -> <<"e", ".", "m", "4", "a">>
      [] name = "f"        -> <<"f">>
      [] name = ".flac"    -> <<".", "f", "l", "a", "c">>
      [] name = "g.x.flac" -> <<"g", ".", "x", ".", "f", "l", "a", "c">>

Upper == <<"A", "B", "C", "D", "E", "F", "G", "H", "I", "J", "K", "L", "M",
           "N", "O", "P", "Q", "R", "S", "T", "U", "V", "W", "X", "Y", "Z">>
Lower == <<"a", "b", "c", "d", "e", "f", "g", "h", "i", "j", "k", "l", "m",
           "n", "o", "p", "q", "r", "s", "t", "u", "v", "w", "x", "y", "z">>
\* str.lower()
lower(s) ==
    [i \in 1..Len(s) |->
        IF \E k \in 1..Len(Upper) : Upper[k] = s[i]
        THEN Lower[CHOOSE k \in 1..Len(Upper) : Upper[k] = s[i]]
        ELSE s[i]]
\* str.rfind(c), 1-based; 0 when c does not occur
rfind(s, c) ==
    IF \E i \in 1..Len(s) : s[i] = c
    THEN CHOOSE i \in 1..Len(s) : s[i] = c /\ \A k \in (i + 1)..Len(s) : s[k] # c
    ELSE 0
\* os.path.splitext(p)[1]: from the last dot of the last path component, unless
\* only dots come before it
splitext_ext(s) ==
    LET sep == rfind(s, "/")
        dot == rfind(s, ".")
    IN IF dot > sep /\ \E k \in (sep + 1)..(dot - 1) : s[k] # "."
       THEN SubSeq(s, dot, Len(s))
       ELSE << >>
IsNotDot(c) == c # "."
\* bot.py:71  os.path.splitext(original_name_from_msg)[1].lower().replace('.', '')
original_ext(name) == SelectSeq(lower(splitext_ext(Chars(name))), IsNotDot)

\* the characters of a format tag
Spell(tag) ==
    CASE tag = "ogg"  -> <<"o", "g", "g">>
      [] tag = "mp3"  -> <<"m", "p", "3">>
      [] tag = "wav"  -> <<"w", "a", "v">>
      [] tag = "flac" -> <<"f", "l", "a", "c">>

\* bot.py:69-87  target_format as analyze_call_audio receives it
target_format(name, conversion_success) ==
    IF conversion_success THEN "mp3"
    ELSE LET e == original_ext(name) IN
         IF e \in {<<"o", "g", "g">>, <<"o", "g", "a">>} THEN "ogg"
         ELSE IF e \in {Spell("mp3"), Spell("wav"), Spell("flac")}
              THEN CHOOSE tag \in {"mp3", "wav", "flac"} : Spell(tag) = e
              ELSE "mp3"

\* bot.py:92  the arguments of analyze_call_audio in the run of coroutine t
AnalyzeArgs(t) == <<t.target, target_format(t.item.name, t.target = "mp3")>>

\* one owner sends one file of any accepted name, updates processed one by one
InitFormat == Start({"u1"}, FormatJobs, FormatCallbacks, FALSE)
DispatchFormat ==
    \/ \E n \in FormatNames : HandleAudio("u1", n, TRUE)
    \/ \E d \in Decisions, about \in 0..session.jobs : CallbackStart("u1", d, about)
NextFormat == (tasks = {} /\ DispatchFormat) \/ \E t \in tasks : Resume(t)
SpecFormat == InitFormat /\ [][NextFormat]_vars

\* the audio format a file name's extension names (.oga names Ogg audio)
FormatOfName(name) ==
    IF original_ext(name) = <<"o", "g", "a">> THEN <<"o", "g", "g">>
    ELSE original_ext(name)

\* C22: a failed conversion does not end the run: the run goes on to the analysis
\* stage with the downloaded file, tagged with the format of the file as it was
\* sent (for a name with an extension, the format the extension names); after a
\* successful conversion the stage gets the converted file tagged mp3.
C22_FallbackFormat ==
    \A t \in tasks :
       t.pc \in {"edit_analyze", "analyze"}
       => /\ t.target \in {"raw", "mp3"}
          /\ t.target = "mp3" => AnalyzeArgs(t)[2] = "mp3"
          /\ (t.target = "raw" /\ original_ext(t.item.name) # << >>)
               => Spell(AnalyzeArgs(t)[2]) = FormatOfName(t.item.name)

\* ------------------------------------------------------------- the stages of a run
\* the awaits of process_audio_file in the order of the code (bot.py:52-119): each
\* pair is an await and one that can follow it in the same run
StageOrder ==
    {<<"get_file", "status">>, <<"get_file", "file_err">>,
     <<"status", "download">>,
     <<"download", "convert">>, <<"download", "reply_error">>,
     <<"convert", "edit_analyze">>,
     <<"edit_analyze", "analyze">>, <<"edit_analyze", "reply_error">>,
     <<"analyze", "edit_saving">>, <<"analyze", "edit_failed">>,
     <<"edit_failed", "reply_error">>,
     <<"edit_saving", "reply_done">>, <<"edit_saving", "reply_error">>,
     <<"reply_done", "reply_error">>}
\* coroutine r is coroutine t one step later, in the same run of the same job
SameRun(t, r) ==
    /\ Resumed(t) /\ Running(t)
    /\ r \in tasks' /\ Running(r)
    /\ r.id = t.id /\ r.item.id = t.item.id
    /\ runs' = runs

\* C23: a run of process_audio_file starts with get_file and passes its awaits in
\* the order fetch, normalize, analyze, persist.  The download is awaited only
\* after get_file returned, the conversion and the analysis only after the
\* download wrote the file, a result of the analysis is a result on a file that
\* exists, and add_evaluation is called (the sheet written, a result noted) only
\* by the step that follows a result of the analysis, never after the analysis
\* returned none.
C23_StageOrder ==
    [][/\ \A t \in tasks : \A r \in tasks' :
             SameRun(t, r)
             => /\ <<t.pc, r.pc>> \in StageOrder
                /\ r.pc = "convert" => <<r.item.id, "raw">> \in files'
                /\ r.pc = "edit_saving" => <<t.item.id, t.target>> \in files
                /\ r.saved # t.saved => (t.pc = "edit_saving" /\ r.pc = "reply_done")
       /\ \A r \in tasks' \ tasks :
             (Running(r) /\ ~\E t \in tasks : SameRun(t, r))
             => (r.pc = "get_file" /\ r.saved = "none" /\ r.target = "none")
       /\ sheet' # sheet
             => \E t \in tasks : Resumed(t) /\ t.pc = "edit_saving"
       /\ \A t \in tasks :
             (Resumed(t) /\ t.pc \in {"analyze", "edit_failed"}) => sheet' = sheet]_vars

\* a run started from the queue has converted, analysed and saved its file and
\* awaits the reply of bot.py:115, both temporary files still on disk
C23_Witness ==
    \E t \in tasks :
       /\ t.pc = "reply_done"
       /\ t.depth >= 1
       /\ t.target = "mp3"
       /\ t.saved = "ok"
       /\ TempFiles(t.item.id) \subseteq files

\* ------------------------------------------------------------- analyzer.py
\* JSON values of a score: a number, the string "n/a", or null
Int(n) == <<"int", n>>
NA == <<"str", "n/a">>
Null == <<"None">>
IsNumber(v) == v[1] = "int"

\* analyzer.py:145-147 and analyzer.py:149
Mandatory == <<"greeting_score", "needs_analysis_score", "speech_score">>
Optional == <<"presentation_score", "closing_score", "summary_score",
              "objection_handling_score">>
ScoreKeys == Range(Mandatory) \cup Range(Optional)

\* the scores a response may carry for a category, and the totals it may report
ScoreValues == {NA, Null, Int(10)}
ReportedTotals == {Int(0), Int(75)}
\* the parsed responses: any of the seven scores may be missing
Responses ==
    UNION { { [k \in K \cup {"total_score"} |->
                 IF k = "total_score" THEN tot ELSE f[k]]
              : f \in [K -> ScoreValues], tot \in ReportedTotals }
            : K \in SUBSET ScoreKeys }

\* data.get(key, default)
get(data, key, default) == IF key \in DOMAIN data THEN data[key] ELSE default
\* analyzer.py:151
Counted(score) == score # NA /\ score # Null
\* analyzer.py:144-152  the list `scores`; int(score) of a number is the number
scores(data) ==
    [i \in 1..Len(Mandatory) |-> get(data, Mandatory[i], Int(0))]
    \o SelectSeq([i \in 1..Len(Optional) |-> get(data, Optional[i], Null)], Counted)
RECURSIVE sum(_)
\* sum() of a list of numbers
sum(s) == IF s = << >> THEN 0 ELSE Head(s)[2] + sum(Tail(s))
\* analyzer.py:141-159  what analyze_call_audio returns for the parsed response
\* `data`: the record with total_score set, or None when sum() raises TypeError on
\* a score that is not a number (caught at analyzer.py:157)
analyze_call_audio(data) ==
    IF \E i \in 1..Len(scores(data)) : ~IsNumber(scores(data)[i])
    THEN <<"None">>
    ELSE <<"dict", [k \in DOMAIN data \cup {"total_score"} |->
                       IF k = "total_score" THEN Int(sum(scores(data))) ELSE data[k]]>>

\* analyze_call_audio is applied to a parsed response
InitScore ==
    /\ session = [users |-> {}, jobs |-> 0, callbacks |-> 0, old |-> FALSE]
    /\ user_queues = << >>
    /\ user_active_flags = << >>
    /\ pending_item = [u \in Users |-> NoItem]
    /\ sheet = <<Header>>
    /\ connected = FALSE
    /\ files = {}
    /\ tasks = {}
    /\ nsub = 0
    /\ ncb = 0
    /\ submitted = [u \in Users |-> << >>]
    /\ dequeued = [u \in Users |-> << >>]
    /\ finalized = [u \in Users |-> << >>]
    /\ runs = << >>
    /\ prompted = {}
    /\ \E r \in Responses : analysis = [response |-> r, result |-> <<"pending">>]
Analyze ==
    /\ analysis.result = <<"pending">>
    /\ analysis' = [analysis EXCEPT !.result = analyze_call_audio(analysis.response)]
    /\ UNCHANGED <<session, user_queues, user_active_flags, pending_item, sheet,
                   connected, files, tasks, nsub, ncb, submitted, dequeued,
                   finalized, runs, prompted>>
NextScore == Analyze
SpecScore == InitScore /\ [][NextScore]_vars

\* the sum of the scores of the response that are numbers
RECURSIVE NumericSum(_, _)
NumericSum(data, keys) ==
    IF keys = {} THEN 0
    ELSE LET k == CHOOSE x \in keys : TRUE IN
         (IF k \in DOMAIN data /\ IsNumber(data[k]) THEN data[k][2] ELSE 0)
         + NumericSum(data, keys \ {k})

\* C24: for every parsed response analyze_call_audio returns a record, and its
\* total_score is the sum of the seven category scores that are numbers: a score
\* of "n/a", a null or a missing score adds nothing, and the total the response
\* reported is not used.
C24_TotalRecomputed ==
    analysis.result # <<"pending">>
    => /\ analysis.result[1] = "dict"
       /\ analysis.result[2]["total_score"]
            = Int(NumericSum(analysis.response, ScoreKeys))

\* C25: find_row_by_filename(name) either raises or returns: when no sheet is
\* connected and connect() fails, or the column cannot be read, it raises (its
\* caller takes the branch of bot.py:147 and not the one of a missing record);
\* when it returns, the result is the 1-based index of the first row whose
\* column-2 cell equals name, or None when no row holds name.  The step that makes
\* the lookup leaves the sheet as it was.
C25_LookupResult ==
    /\ [](\A name \in Names : \A r \in find_row_by_filename(name) :
             /\ ~r.conn => (r.raised /\ ~connected)
             /\ ~r.raised
                  => IF Recorded(name)
                     THEN /\ r.row \in 1..Len(sheet)
                          /\ sheet[r.row] = name
                          /\ \A k \in 1..(r.row - 1) : sheet[k] # name
                     ELSE r.row = None)
    /\ [](\A name \in Names :
             /\ \E r \in find_row_by_filename(name) : r.raised
             /\ \E r \in find_row_by_filename(name) : ~r.raised)
    /\ [][\A u \in Users : \A r \in tasks' :
             Dequeues(u, r)
             => /\ sheet' = sheet
                /\ ~connected' => r.pc = "conflict_err"
                /\ r.pc = "prompt"
                     => /\ Recorded(r.item.name)
                        /\ sheet[pending_item'[u].row] = r.item.name
                        /\ \A k \in 1..(pending_item'[u].row - 1) :
                              sheet[k] # r.item.name]_vars

\* a job is suspended on the first of two rows that hold its name
C25_Witness ==
    \E u \in Users :
       /\ pending_item[u] # NoItem
       /\ pending_item[u].row = FindRow(sheet, pending_item[u].name)
       /\ \E k \in (pending_item[u].row + 1)..Len(sheet) :
             sheet[k] = pending_item[u].name

\* C26: whenever the active flag of an owner is true and no handler of that owner
\* is in flight, the owner has a suspended job whose overwrite prompt was issued:
\* the flag is never left true with nothing running and nothing to decide.
C26_FlagNeverStranded ==
    \A u \in Users :
       (ActiveFlag(u) /\ \A t \in tasks : t.user # u)
       => /\ pending_item[u] # NoItem
          /\ pending_item[u].id \in prompted
====
